---- MODULE Spec2Model ----
(***************************************************************************)
(* plot_fast_kde (src/tvb/simulator/plot/tools.py, lines 688-843): a       *)
(* gaussian kernel density estimate on a regular grid, computed as the     *)
(* convolution of a gaussian kernel with a 2D histogram of the samples.    *)
(*                                                                         *)
(* One call is modelled as a sequence of steps, one per block of the       *)
(* function body; pc names the block that runs next.  A keyword argument   *)
(* enters the state (in opts) at the statement that first reads it: the    *)
(* function does not look at it before, so binding it there produces the   *)
(* same runs as binding it at the call.                                    *)
(*                                                                         *)
(* Numbers.  Sample coordinates, weights, extents and kernel extents are   *)
(* integers.  Quantities the code derives from them by + - * / are kept    *)
(* exact (as integers over a stated denominator).  Quantities that pass    *)
(* through power, sqrt, pi or exp are fixed-point numbers in units of      *)
(* 1/FP.  A float that is nan or +-inf is kept as such.                    *)
(***************************************************************************)
EXTENDS Integers, Sequences, FiniteSets, TLC

\* ------------------------------------------------------------------ bounds
\* x and y hold 0..MaxLen samples each
MaxLen == 3
\* each side of gridsize is 2 or MaxGrid
MaxGrid == 3

\* fixed-point resolution standing for the floats of the code
FP == 1000
\* 2 * numpy.pi in units of 1/FP
TwoPi == 6283

\* ------------------------------------------------------------------ values
\* Python's None and a given optional argument
None == <<>>
Some(v) == <<v>>
IsNone(o) == o = <<>>
Val(o) == o[1]

\* a float: finite (v is its value), nan, or infinite (v is its sign)
Fin(v) == [t |-> "fin", v |-> v]
NaN == [t |-> "nan", v |-> 0]
Inf(s) == [t |-> "inf", v |-> s]
IsFin(f) == f.t = "fin"

SeqsUpTo(S, k) == UNION {[1..m -> S] : m \in 0..k}

RECURSIVE SumSeq(_)
SumSeq(s) == IF s = <<>> THEN 0 ELSE s[1] + SumSeq(Tail(s))

Abs(a) == IF a < 0 THEN -a ELSE a
Sign(a) == IF a < 0 THEN -1 ELSE IF a > 0 THEN 1 ELSE 0

\* floor(p / q) for q # 0
FloorDiv(p, q) == IF q > 0 THEN p \div q ELSE (-p) \div (-q)

\* numpy.round(p / q): to the nearest integer, a half to the even one
RoundDiv(p, q) ==
    LET pp == IF q > 0 THEN p ELSE -p
        qq == Abs(q)
        f == pp \div qq
        r2 == 2 * (pp - f * qq)
    IN  IF r2 < qq THEN f
        ELSE IF r2 > qq THEN f + 1
        ELSE IF f % 2 = 0 THEN f ELSE f + 1

\* the sum of the values of f over the set S of its arguments
RECURSIVE SumOn(_, _)
SumOn(f, S) ==
    IF S = {} THEN 0
    ELSE LET e == CHOOSE o \in S : TRUE IN f[e] + SumOn(f, S \ {e})

\* fixed-point product
FMul(a, b) == (a * b) \div FP

\* ------------------------------------------------------------------ inputs
\* sample coordinates
Coords == {0, 1}
\* explicit weights arrays of length m: all 2, or 2, 1, 2, 1, ...
WeightArrays(m) == {[k \in 1..m |-> 2], [k \in 1..m |-> 1 + (k % 2)]}
\* explicit extents (xmin, xmax, ymin, ymax)
ExtentArgs == {<<0, 0, 0, 2>>, <<0, 2, 0, 2>>, <<1, 2, 1, 2>>, <<1, 2, -2, 0>>}
\* kernel extents <<kern_nx, kern_ny>> in data units, each None or given
KernArgs == {<<None, None>>, <<Some(2), Some(2)>>, <<Some(0), Some(2)>>,
             <<Some(2), None>>}

\* ------------------------------------------------------------------ state
VARIABLES
    pc,           \* the block of plot_fast_kde that runs next; "done" after it
    err,          \* None, or the exception the call raised
    x, y,         \* the sample coordinates, after asarray and squeeze
    opts,         \* the keyword arguments read so far
    weights,      \* the local weights array (line 753 or 755)
    ext,          \* xmin, xmax, ymin, ymax (lines 761-765)
    xyi,          \* the pixel coordinates (lines 774-777)
    grid,         \* the histogram (line 781), then the convolved grid (line 824)
    cov,          \* the covariance matrix of xyi (lines 784-788)
    kern,         \* kern_nx, kern_ny in bins (lines 798-803)
    inv_cov,      \* the inverted bandwidth matrix (line 806)
    kernel,       \* the gaussian kernel (lines 809-818)
    norm_factor,  \* the normalization factor (lines 828-838)
    ret           \* None, or the returned grid

vars == <<pc, err, x, y, opts, weights, ext, xyi, grid, cov, kern, inv_cov,
          kernel, norm_factor, ret>>

n == Len(x)
nx == opts.gridsize[1]
ny == opts.gridsize[2]

Raise(e) == pc' = "done" /\ err' = Some(e)
Goto(l) == pc' = l /\ err' = err

Init ==
    /\ x \in SeqsUpTo(Coords, MaxLen)
    /\ y \in SeqsUpTo(Coords, MaxLen)
    /\ pc = "setup"
    /\ err = None
    /\ opts = <<>>
    /\ weights = <<>>
    /\ ext = <<>>
    /\ xyi = <<>>
    /\ grid = <<>>
    /\ cov = <<>>
    /\ kern = <<>>
    /\ inv_cov = <<>>
    /\ kernel = <<>>
    /\ norm_factor = <<>>
    /\ ret = None

\* ------------------------------------------------------------------ setup
GridSizes == {2, MaxGrid} \X {2, MaxGrid}
WeightArgs == {None} \cup {Some(w) : w \in UNION {WeightArrays(m) : m \in 0..MaxLen}}

\* the weights array cut or padded with ones to the length of x
LocalWeightsResized(w, len) ==
    [k \in 1..len |-> IF IsNone(w) \/ k > Len(Val(w)) THEN 1 ELSE Val(w)[k]]

\* lines 751-755: the weights array the call works with
LocalWeights(w, len) == IF IsNone(w) THEN [k \in 1..len |-> 1] ELSE Val(w)

\* lines 742-758
Setup ==
    /\ pc = "setup"
    /\ IF Len(x) # Len(y)
       THEN /\ Raise("ValueError: x & y size")
            /\ UNCHANGED <<opts, weights>>
       ELSE \E g \in GridSizes, w \in WeightArgs :
              /\ opts' = [gridsize |-> g, weights |-> w]
              /\ weights' = LocalWeights(w, Len(x))
              /\ IF Len(LocalWeights(w, Len(x))) # Len(x)
                 THEN Raise("ValueError: weights size")
                 ELSE Goto("extents")
    /\ UNCHANGED <<x, y, ext, xyi, grid, cov, kern, inv_cov, kernel,
                   norm_factor, ret>>

\* ------------------------------------------------------------------ extents
ExtentsArgs == {None} \cup {Some(e) : e \in ExtentArgs}

Min(s) == CHOOSE m \in {s[k] : k \in 1..Len(s)} : \A k \in 1..Len(s) : m <= s[k]
Max(s) == CHOOSE m \in {s[k] : k \in 1..Len(s)} : \A k \in 1..Len(s) : m >= s[k]

\* lines 761-765
Bounds(e) ==
    IF IsNone(e)
    THEN [xmin |-> Min(x), xmax |-> Max(x), ymin |-> Min(y), ymax |-> Max(y)]
    ELSE [xmin |-> Val(e)[1], xmax |-> Val(e)[2],
          ymin |-> Val(e)[3], ymax |-> Val(e)[4]]

\* the bin width of m bins laid side by side over lo..hi
BinWidthOverN(lo, hi, m) == [num |-> hi - lo, den |-> m]

\* lines 767-768: the bin width lo..hi over m bins is (hi - lo) / (m - 1),
\* kept as numerator and denominator
BinWidth(lo, hi, m) == [num |-> hi - lo, den |-> m - 1]
dx == BinWidth(ext.xmin, ext.xmax, nx)
dy == BinWidth(ext.ymin, ext.ymax, ny)

\* lines 761-768.  x.min() of an empty array raises; a bin width of 0 does not.
Extents ==
    /\ pc = "extents"
    /\ \E e \in ExtentsArgs :
         /\ opts' = [gridsize |-> opts.gridsize, weights |-> opts.weights,
                     extents |-> e]
         /\ IF IsNone(e) /\ n = 0
            THEN /\ Raise("ValueError: zero-size array")
                 /\ UNCHANGED ext
            ELSE /\ ext' = Bounds(e)
                 /\ Goto("binning")
    /\ UNCHANGED <<x, y, weights, xyi, grid, cov, kern, inv_cov, kernel,
                   norm_factor, ret>>

\* ------------------------------------------------------------------ binning
\* lines 775-777 for one coordinate: floor((v - lo) / w), a float
Pixel(v, lo, w) ==
    IF w.num = 0
    THEN IF v = lo THEN NaN ELSE Inf(Sign(v - lo))
    ELSE Fin(FloorDiv((v - lo) * w.den, w.num))

\* lines 774-777: row 1 holds the x pixels, row 2 the y pixels
PixelCoords(xs, ys, e, wx, wy) ==
    << [k \in 1..Len(xs) |-> Pixel(xs[k], e.xmin, wx)],
       [k \in 1..Len(ys) |-> Pixel(ys[k], e.ymin, wy)] >>

\* coo_matrix casts its float indices to integers.  The cast of nan is
\* undefined; builds give the most negative integer or 0 (nanAs).  The cast
\* of an infinity gives an integer far outside any grid.
Huge == 2147483647
Index(f, nanAs) ==
    IF f.t = "fin" THEN f.v
    ELSE IF f.t = "nan" THEN nanAs
    ELSE f.v * Huge

\* an index check that lets a negative index count from the end
IndexOkFromEnd(i, m) == -m <= i /\ i < m

\* coo_matrix rejects an index outside its shape
IndexOk(i, m) == 0 <= i /\ i < m

\* line 781: coo_matrix(...).toarray() sums the weights of equal (row, col)
RECURSIVE CellSum(_, _, _, _, _)
CellSum(w, is, js, i, j) ==
    IF w = <<>> THEN 0
    ELSE (IF is[1] = i /\ js[1] = j THEN w[1] ELSE 0)
         + CellSum(Tail(w), Tail(is), Tail(js), i, j)

\* a histogram that counts the samples of each cell
HistogramCount(w, is, js, m1, m2) ==
    [c \in (0..m1 - 1) \X (0..m2 - 1) |->
        CellSum([k \in 1..Len(w) |-> 1], is, js, c[1], c[2])]

Histogram(w, is, js, m1, m2) ==
    [c \in (0..m1 - 1) \X (0..m2 - 1) |-> CellSum(w, is, js, c[1], c[2])]

\* An array is a view of memory: base names the memory its in-place
\* operations write to, rows holds its values.  x and y are views of the
\* caller's arrays (lines 742-743: asarray and squeeze copy nothing).

\* an array of x and y that shares their memory
VStackView(xs, ys) == [base |-> "caller", rows |-> <<xs, ys>>]

\* line 774: numpy.vstack builds a new array from copies of x and y
VStack(xs, ys) == [base |-> "new", rows |-> <<xs, ys>>]

\* a row of floats as it lands in the caller's array
Stored(row) == [k \in 1..Len(row) |-> Index(row[k], -Huge)]

\* the caller's array old after the in-place operations of lines 775-777 on
\* the array a, which left row in its place
WrittenThrough(a, old, row) == IF a.base = "caller" THEN Stored(row) ELSE old

\* lines 774-781
Binning ==
    /\ pc = "binning"
    /\ LET a == VStack(x, y)
           p == PixelCoords(a.rows[1], a.rows[2], ext, dx, dy)
       IN  /\ xyi' = p
           /\ x' = WrittenThrough(a, x, p[1])
           /\ y' = WrittenThrough(a, y, p[2])
           /\ \E nanAs \in {-Huge, 0} :
                LET is == [k \in 1..n |-> Index(p[1][k], nanAs)]
                    js == [k \in 1..n |-> Index(p[2][k], nanAs)]
                IN  IF \A k \in 1..n : IndexOk(is[k], nx) /\ IndexOk(js[k], ny)
                    THEN /\ grid' = Histogram(weights, is, js, nx, ny)
                         /\ Goto("covariance")
                    ELSE /\ Raise("ValueError: index out of range")
                         /\ UNCHANGED grid
    /\ UNCHANGED <<opts, weights, ext, cov, kern, inv_cov, kernel,
                   norm_factor, ret>>

\* ------------------------------------------------------------------ covariance
\* numpy.cov of one pair of rows, times n * (n - 1): an integer for finite
\* rows; nan when a coordinate is not finite or when n < 2 (0 / 0)
Moment(as, bs) ==
    IF Len(as) < 2 \/ \E k \in 1..Len(as) : ~IsFin(as[k]) \/ ~IsFin(bs[k])
    THEN NaN
    ELSE LET av == [k \in 1..Len(as) |-> as[k].v]
             bv == [k \in 1..Len(as) |-> bs[k].v]
             ab == [k \in 1..Len(as) |-> as[k].v * bs[k].v]
         IN  Fin(Len(as) * SumSeq(ab) - SumSeq(av) * SumSeq(bv))

\* lines 784-785 without the zeroing of lines 786-788
CovarianceKeep(p, nocorrelation) ==
    [xx |-> Moment(p[1], p[1]), xy |-> Moment(p[1], p[2]),
     yy |-> Moment(p[2], p[2])]

\* lines 784-788.  The entries are those of cov times n * (n - 1).
Covariance(p, nocorrelation) ==
    [xx |-> Moment(p[1], p[1]),
     xy |-> IF nocorrelation THEN Fin(0) ELSE Moment(p[1], p[2]),
     yy |-> Moment(p[2], p[2])]

\* n * (n - 1), the denominator of the entries of cov
CovDen == n * (n - 1)

\* k^6 in fixed point
Pow6(k) == LET k3 == FMul(FMul(k, k), k) IN FMul(k3, k3)

\* the largest k in lo..hi with k^6 * m <= 1, in fixed point
RECURSIVE SixthRoot(_, _, _)
SixthRoot(m, lo, hi) ==
    IF lo >= hi THEN lo
    ELSE LET mid == (lo + hi + 1) \div 2
         IN  IF Pow6(mid) * m <= FP
             THEN SixthRoot(m, mid, hi) ELSE SixthRoot(m, lo, mid - 1)

\* line 791: numpy.power(n, -1.0 / 6) for n >= 1, in fixed point
ScottsFactor(m) == SixthRoot(m, 0, FP)
scotts_factor == ScottsFactor(n)

\* lines 784-791
CovarianceStep ==
    /\ pc = "covariance"
    /\ \E nc \in BOOLEAN :
         /\ opts' = [gridsize |-> opts.gridsize, weights |-> opts.weights,
                     extents |-> opts.extents, nocorrelation |-> nc]
         /\ cov' = Covariance(xyi, nc)
    /\ Goto("kernelsize")
    /\ UNCHANGED <<x, y, weights, ext, xyi, grid, kern, inv_cov, kernel,
                   norm_factor, ret>>

\* ------------------------------------------------------------------ kernel size
\* the largest k in lo..hi with k * k <= a
RECURSIVE SqrtSearch(_, _, _)
SqrtSearch(a, lo, hi) ==
    IF lo >= hi THEN lo
    ELSE LET mid == (lo + hi + 1) \div 2
         IN  IF mid * mid <= a
             THEN SqrtSearch(a, mid, hi) ELSE SqrtSearch(a, lo, mid - 1)

\* floor(sqrt(a)) for a >= 0; 46340 is the largest root of a 32-bit integer
ISqrt(a) == SqrtSearch(a, 0, 46340)

\* line 796: the standard deviation of one axis, in fixed point
StdDev(c) == IF IsFin(c) /\ n >= 2 THEN Fin(ISqrt((c.v * FP * FP) \div CovDen)) ELSE NaN

\* line 799 for one axis
ScottSize(sd) ==
    IF IsFin(sd)
    THEN Fin(RoundDiv(FMul(FMul(scotts_factor, TwoPi), sd.v), FP))
    ELSE NaN

\* lines 802-803 for one axis: numpy.round(k / w)
ExtentSize(k, w) ==
    IF w.num = 0
    THEN IF k = 0 THEN NaN ELSE Inf(Sign(k))
    ELSE Fin(RoundDiv(k * w.den, w.num))

\* lines 796-803
KernelSizeOf(knx, kny) ==
    IF IsNone(knx) \/ IsNone(kny)
    THEN [nx |-> ScottSize(StdDev(cov.xx)), ny |-> ScottSize(StdDev(cov.yy))]
    ELSE [nx |-> ExtentSize(Val(knx), dx), ny |-> ExtentSize(Val(kny), dy)]

KernelSize ==
    /\ pc = "kernelsize"
    /\ \E k \in KernArgs :
         /\ opts' = [gridsize |-> opts.gridsize, weights |-> opts.weights,
                     extents |-> opts.extents,
                     nocorrelation |-> opts.nocorrelation,
                     kern_nx |-> k[1], kern_ny |-> k[2]]
         /\ kern' = KernelSizeOf(k[1], k[2])
    /\ Goto("bandwidth")
    /\ UNCHANGED <<x, y, weights, ext, xyi, grid, cov, inv_cov, kernel,
                   norm_factor, ret>>

\* ------------------------------------------------------------------ bandwidth
CovFinite(c) == IsFin(c.xx) /\ IsFin(c.xy) /\ IsFin(c.yy)

\* the determinant of cov, times (n * (n - 1))^2
Det(c) == c.xx.v * c.yy.v - c.xy.v * c.xy.v

\* a / (scotts_factor^2 * d) * n * (n - 1), in fixed point
Scaled(a, d) ==
    (((a * CovDen * FP) \div d) * FP) \div FMul(scotts_factor, scotts_factor)

\* line 806: numpy.linalg.inv(cov * scotts_factor**2), in fixed point
Inverse(c) ==
    [xx |-> Scaled(c.yy.v, Det(c)), xy |-> Scaled(-c.xy.v, Det(c)),
     yy |-> Scaled(c.xx.v, Det(c))]

\* line 806.  inv raises on a singular matrix; of a matrix with nan entries
\* it returns nan entries.
Bandwidth ==
    /\ pc = "bandwidth"
    /\ IF ~CovFinite(cov)
       THEN inv_cov' = NaN /\ Goto("kernel")
       ELSE IF Det(cov) = 0
       THEN Raise("LinAlgError: Singular matrix") /\ UNCHANGED inv_cov
       ELSE inv_cov' = Inverse(cov) /\ Goto("kernel")
    /\ UNCHANGED <<x, y, opts, weights, ext, xyi, grid, cov, kern, kernel,
                   norm_factor, ret>>

\* ------------------------------------------------------------------ kernel
\* An array of shape (rows, cols) is a record: entry <<r, c>> of at is its
\* entry [r, c], counting from 0; every entry is nan when nan is set.

\* numpy.exp(-q) for a fixed-point q
RECURSIVE ExpNeg(_)
ExpNeg(q) ==
    IF q > FP \div 2
    THEN LET h == ExpNeg(q \div 2) IN FMul(h, h)
    ELSE LET q2 == FMul(q, q)
             q3 == FMul(q2, q)
             q4 == FMul(q3, q)
         IN  FP - q + q2 \div 2 - q3 \div 6 + q4 \div 24

\* lines 809-810: twice the k-th coordinate of the kernel grid of a given
\* size, numpy.arange(size)[k] - size / 2.0
Offset2(k, size) == 2 * k - size

\* the gaussian cut to the first two terms of its series, 1 - q
GaussianLinear(ic, u2, v2) ==
    FP - (ic.xx * u2 * u2 + 2 * ic.xy * u2 * v2 + ic.yy * v2 * v2) \div 8

\* lines 814-817: the gaussian at twice the offsets u2, v2
Gaussian(ic, u2, v2) ==
    ExpNeg((ic.xx * u2 * u2 + 2 * ic.xy * u2 * v2 + ic.yy * v2 * v2) \div 8)

\* lines 809-818: rows run over the y offsets, columns over the x offsets
KernelOf(ic, k) ==
    [rows |-> k.ny.v, cols |-> k.nx.v, nan |-> ic = NaN,
     at |-> [c \in (0..k.ny.v - 1) \X (0..k.nx.v - 1) |->
               IF ic = NaN THEN 0
               ELSE Gaussian(ic, Offset2(c[2], k.nx.v), Offset2(c[1], k.ny.v))]]

\* lines 809-818.  numpy.arange of nan or of an infinity raises; of 0 it is
\* empty, and so is the kernel.
Kernel ==
    /\ pc = "kernel"
    /\ IF ~IsFin(kern.nx) \/ ~IsFin(kern.ny)
       THEN Raise("ValueError: arange") /\ UNCHANGED kernel
       ELSE kernel' = KernelOf(inv_cov, kern) /\ Goto("convolve")
    /\ UNCHANGED <<x, y, opts, weights, ext, xyi, grid, cov, kern, inv_cov,
                   norm_factor, ret>>

\* ------------------------------------------------------------------ convolve
\* scipy.signal.convolve2d(in1, in2, mode='same', boundary='fill'): the
\* centre of the full convolution, of the shape of in1, zeros outside in1
Convolve2dSame(in1, rows, cols, in2) ==
    LET Term(i, j, c) ==
            LET r == i + (in2.rows - 1) \div 2 - c[1]
                q == j + (in2.cols - 1) \div 2 - c[2]
            IN  IF 0 <= r /\ r < rows /\ 0 <= q /\ q < cols
                THEN in1[<<r, q>>] * in2.at[c] ELSE 0
        Cell(i, j) ==
            SumOn([c \in DOMAIN in2.at |-> Term(i, j, c)], DOMAIN in2.at)
        nan == in2.nan /\ DOMAIN in2.at # {}
    IN  [rows |-> rows, cols |-> cols, nan |-> nan,
         at |-> [c \in (0..rows - 1) \X (0..cols - 1) |->
                   IF nan THEN 0 ELSE Cell(c[1], c[2])]]

\* line 824 without its .T
NoTranspose(m) == m

\* the .T of line 824
Transpose(m) ==
    [rows |-> m.cols, cols |-> m.rows, nan |-> m.nan,
     at |-> [c \in (0..m.cols - 1) \X (0..m.rows - 1) |-> m.at[<<c[2], c[1]>>]]]

\* line 824
Convolve ==
    /\ pc = "convolve"
    /\ grid' = Transpose(Convolve2dSame(grid, nx, ny, kernel))
    /\ Goto("normalize")
    /\ UNCHANGED <<x, y, opts, weights, ext, xyi, cov, kern, inv_cov, kernel,
                   norm_factor, ret>>

\* ------------------------------------------------------------------ normalize
\* lines 828-834: sqrt(det(2 pi cov scotts_factor^2)) in fixed point (k),
\* times the rational num / den, which is n dx dy when norm is set
NormFactor(c, norm) ==
    IF ~CovFinite(c) \/ n < 2
    THEN [nan |-> TRUE, k |-> 0, num |-> 1, den |-> 1]
    ELSE [nan |-> FALSE,
          k |-> FMul(FMul(TwoPi, FMul(scotts_factor, scotts_factor)),
                     ISqrt(Det(c) * FP * FP) \div CovDen),
          num |-> IF norm THEN n * dx.num * dy.num ELSE 1,
          den |-> IF norm THEN dx.den * dy.den ELSE 1]

\* line 841: each cell at / FP divided by (k / FP) * (num / den), kept as the
\* fraction cell / over
Divide(g, f) ==
    [rows |-> g.rows, cols |-> g.cols, nan |-> g.nan \/ f.nan,
     cell |-> [c \in DOMAIN g.at |-> g.at[c] * f.den],
     over |-> f.k * f.num]

\* lines 828-843.  With pdf set, nquad is handed the grid array where it
\* takes a callable, and raises.
Normalize ==
    /\ pc = "normalize"
    /\ \E nm \in BOOLEAN, pd \in BOOLEAN :
         /\ opts' = [gridsize |-> opts.gridsize, weights |-> opts.weights,
                     extents |-> opts.extents,
                     nocorrelation |-> opts.nocorrelation,
                     kern_nx |-> opts.kern_nx, kern_ny |-> opts.kern_ny,
                     norm |-> nm, pdf |-> pd]
         /\ norm_factor' = NormFactor(cov, nm)
         /\ IF pd
            THEN /\ Raise("TypeError: not callable")
                 /\ UNCHANGED <<grid, ret>>
            ELSE /\ grid' = Divide(grid, NormFactor(cov, nm))
                 /\ ret' = Some(Divide(grid, NormFactor(cov, nm)))
                 /\ pc' = "done"
                 /\ err' = err
    /\ UNCHANGED <<x, y, weights, ext, xyi, cov, kern, inv_cov, kernel>>

\* ------------------------------------------------------------------ the call
Next ==
    \/ Setup
    \/ Extents
    \/ Binning
    \/ CovarianceStep
    \/ KernelSize
    \/ Bandwidth
    \/ Kernel
    \/ Convolve
    \/ Normalize

Spec == Init /\ [][Next]_vars

\* ------------------------------------------------------------------ error kinds
\* the exceptions of lines 746 and 757
SizeErrors == {"ValueError: x & y size", "ValueError: weights size"}

\* the error kind an exception of the call stands for: a size mismatch, a
\* singular covariance, or none of the named kinds
ErrorKind(e) ==
    IF e \in SizeErrors THEN "ShapeMismatchError"
    ELSE IF e = "LinAlgError: Singular matrix" THEN "SingularCovarianceError"
    ELSE "unnamed"

Failed == pc = "done" /\ err # None
Returned == pc = "done" /\ ret # None

\* ------------------------------------------------------------------ C1
\* C1: every grid the call returns has gridsize[1] rows and gridsize[0]
\* columns, whatever the size of the kernel.
C1_Shape ==
    Returned =>
        /\ Val(ret).rows = ny
        /\ Val(ret).cols = nx
        /\ DOMAIN Val(ret).cell = (0..ny - 1) \X (0..nx - 1)

\* a grid is returned for a gridsize with nx # ny and a non-square kernel
C1_Witness ==
    /\ Returned
    /\ nx # ny
    /\ ~Val(ret).nan
    /\ kernel.rows # kernel.cols

\* ------------------------------------------------------------------ C2
\* the sizes of x and y differ, or weights is given with another size than x
SizesDiffer ==
    \/ Len(x) # Len(y)
    \/ /\ pc # "setup"
       /\ ~IsNone(opts.weights)
       /\ Len(Val(opts.weights)) # Len(x)

\* C2: when the sizes of x and y differ, or weights is given with another
\* size than x, the call fails with a size-mismatch error, and extents,
\* pixel coordinates, histogram and covariance have not been computed.
C2_ShapeMismatch ==
    pc # "setup" /\ SizesDiffer =>
        /\ Failed
        /\ ErrorKind(Val(err)) = "ShapeMismatchError"
        /\ ret = None
        /\ ext = <<>> /\ xyi = <<>> /\ grid = <<>> /\ cov = <<>>

\* x and y agree in size and the given weights do not: the call has failed
C2_Witness ==
    /\ Len(x) = Len(y)
    /\ err = Some("ValueError: weights size")
    /\ Len(Val(opts.weights)) # Len(x)

\* ------------------------------------------------------------------ C3
ZeroRange == ext.xmax = ext.xmin \/ ext.ymax = ext.ymin

\* C3: when the extents have zero range on an axis, the call fails with a
\* degenerate-extent error and does not go on to the binning with a bin
\* width of 0.
C3_DegenerateExtent ==
    ext # <<>> /\ ZeroRange =>
        Failed /\ ErrorKind(Val(err)) = "DegenerateExtentError"

\* ------------------------------------------------------------------ C4
InGrid(f, m) == IsFin(f) /\ 0 <= f.v /\ f.v <= m - 1

Degenerate == n < 2 \/ \A k \in 1..n : x[k] = x[1] /\ y[k] = y[1]

\* C5: a call with fewer than 2 points, or with points that are all
\* identical, fails with the singular-covariance error.
C5_SingularOnDegenerate ==
    pc = "done" /\ ~SizesDiffer /\ Degenerate =>
        Failed /\ ErrorKind(Val(err)) = "SingularCovarianceError"

\* ------------------------------------------------------------------ C6
\* kern_nx or kern_ny, in bins, is 0 or less
NonPositiveKernel ==
    /\ kern # <<>>
    /\ \/ IsFin(kern.nx) /\ kern.nx.v <= 0
       \/ IsFin(kern.ny) /\ kern.ny.v <= 0

\* C6: when the kernel size in bins is 0 or less on an axis, the call fails
\* with a degenerate-kernel error.
C6_DegenerateKernel ==
    pc = "done" /\ NonPositiveKernel =>
        Failed /\ ErrorKind(Val(err)) = "DegenerateKernelError"

\* ------------------------------------------------------------------ C7
\* y = x, with at least two distinct values
PerfectlyCorrelated == y = x /\ \E i, j \in 1..n : x[i] # x[j]

Singular == err = Some("LinAlgError: Singular matrix")

\* the pixel coordinates of one axis are finite and not all the same
TwoBins(row) ==
    /\ \A k \in 1..n : IsFin(row[k])
    /\ \E i, j \in 1..n : row[i].v # row[j].v

\* C7 as claimed: for y = x with two distinct values and nocorrelation set,
\* the call does not raise the singular-matrix error.
C7_NoSingularWhenUncorrelated ==
    cov # <<>> /\ opts.nocorrelation /\ PerfectlyCorrelated => ~Singular

\* C7, amended: for y = x with two distinct values and nocorrelation set,
\* when the extents are those of the data, or the samples fall into two bins
\* or more on each axis, the off-diagonal covariance is 0, the call does not
\* raise the singular-matrix error, and the inverted matrix is diagonal with
\* positive entries.
C7_NoSingularWhenSpread ==
    /\ cov # <<>>
    /\ opts.nocorrelation
    /\ PerfectlyCorrelated
    /\ IsNone(opts.extents) \/ (TwoBins(xyi[1]) /\ TwoBins(xyi[2]))
    => /\ ~Singular
       /\ cov.xy = Fin(0)
       /\ pc \notin {"kernelsize", "bandwidth"} =>
            inv_cov.xy = 0 /\ inv_cov.xx > 0 /\ inv_cov.yy > 0

\* a grid is returned for y = x under nocorrelation, the matrix inverted
C7_Witness ==
    /\ Returned
    /\ opts.nocorrelation
    /\ PerfectlyCorrelated
    /\ IsNone(opts.extents)
    /\ inv_cov.xx > 0 /\ inv_cov.xy = 0

\* ------------------------------------------------------------------ C8
\* C8: every cell of a returned grid that holds numbers is >= 0, with norm
\* set or not (the weights are non-negative).
C8_NonNegative ==
    Returned /\ ~Val(ret).nan =>
        /\ Val(ret).over > 0
        /\ \A c \in DOMAIN Val(ret).cell : Val(ret).cell[c] >= 0

\* a grid with a positive cell is returned from non-uniform weights
C8_Witness ==
    /\ Returned
    /\ ~Val(ret).nan
    /\ \E i, j \in 1..n : weights[i] # weights[j]
    /\ \E c \in DOMAIN Val(ret).cell : Val(ret).cell[c] > 0

\* ------------------------------------------------------------------ C9
\* the sum over the cells of grid * dx * dy, in fixed point
Integral(g) ==
    LET cells == SumOn(g.cell, DOMAIN g.cell)
    IN  (cells * dx.num * dy.num * FP) \div (g.over * dx.den * dy.den)

\* C9: with norm set, the returned grid integrates to 1 over the extents,
\* within a relative tolerance of a tenth.
C9_UnitIntegral ==
    Returned /\ ~Val(ret).nan /\ opts.norm =>
        Abs(Integral(Val(ret)) - FP) * 10 <= FP

\* ------------------------------------------------------------------ C10
Doubled(w) == [k \in 1..Len(w) |-> 2 * w[k]]

\* the histogram of line 781 for the weights w, the rest of the call as is
HistogramFor(w) ==
    Histogram(w, [k \in 1..n |-> Index(xyi[1][k], 0)],
              [k \in 1..n |-> Index(xyi[2][k], 0)], nx, ny)

\* the grid of lines 824-841 for the weights w, the rest of the call as is
GridFor(w) ==
    Divide(Transpose(Convolve2dSame(HistogramFor(w), nx, ny, kernel)),
           norm_factor)

\* C10: with every weight doubled and nothing else changed, every cell of
\* the histogram is doubled, and every cell of the grid returned with norm
\* unset is doubled, over the same shape and the same normalization factor.
C10_WeightScaling ==
    /\ pc \in {"covariance", "kernelsize", "bandwidth", "kernel", "convolve"} =>
         /\ HistogramFor(weights) = grid
         /\ \A c \in DOMAIN grid : HistogramFor(Doubled(weights))[c] = 2 * grid[c]
    /\ Returned /\ ~opts.norm =>
         /\ GridFor(weights) = Val(ret)
         /\ GridFor(Doubled(weights)).rows = Val(ret).rows
         /\ GridFor(Doubled(weights)).cols = Val(ret).cols
         /\ GridFor(Doubled(weights)).over = Val(ret).over
         /\ \A c \in DOMAIN Val(ret).cell :
              GridFor(Doubled(weights)).cell[c] = 2 * Val(ret).cell[c]

\* a grid with a positive cell is returned with norm unset from weights
\* that are not all the same
C10_Witness ==
    /\ Returned
    /\ ~opts.norm
    /\ ~Val(ret).nan
    /\ \E i, j \in 1..n : weights[i] # weights[j]
    /\ \E c \in DOMAIN Val(ret).cell : Val(ret).cell[c] > 0

\* ------------------------------------------------------------------ C11
\* C11: no step of the call changes the caller's x or y, and from the binding
\* of weights on no step changes the caller's weights, of which the local
\* weights is a view; this holds of the steps of failing calls too.
C11_InputsUnchanged ==
    [][/\ x' = x
       /\ y' = y
       /\ pc # "setup" =>
            /\ opts'.weights = opts.weights
            /\ weights' = weights
            /\ ~IsNone(opts.weights) => weights = Val(opts.weights)]_vars

\* a grid is returned from given weights, after the in-place operations left
\* pixel coordinates that differ from the coordinates of the samples
C11_Witness ==
    /\ Returned
    /\ ~IsNone(opts.weights)
    /\ \E k \in 1..n : xyi[1][k] # Fin(x[k])
    /\ \E k \in 1..n : xyi[2][k] # Fin(y[k])

\* ------------------------------------------------------------------ C12
\* the call has run lines 837-838 with pdf set
PdfAsked == pc = "done" /\ "pdf" \in DOMAIN opts /\ opts.pdf

\* the convolved grid g divided by its integral over the extents, the sum of
\* its cells times dx * dy, as the fraction cell / over; norm has no part
PdfGrid(g) ==
    [rows |-> g.rows, cols |-> g.cols, nan |-> g.nan,
     cell |-> [c \in DOMAIN g.at |-> g.at[c] * dx.den * dy.den],
     over |-> SumOn(g.at, DOMAIN g.at) * dx.num * dy.num]

\* the convolved grid holds numbers and its integral is positive
Integrable(g) ==
    ~g.nan /\ SumOn(g.at, DOMAIN g.at) * dx.num * dy.num > 0

\* C12: with pdf set and a convolved grid of positive integral, the call
\* returns the convolved grid divided by its numerical integral over the
\* extents, with norm set or not.
C12_ExactPdf ==
    PdfAsked /\ Integrable(grid) => Returned /\ Val(ret) = PdfGrid(grid)

\* ------------------------------------------------------------------ C13
\* the covariance holds numbers and can be inverted
Invertible(c) == CovFinite(c) /\ Det(c) # 0

\* C13: in a call with extents of positive range and an invertible
\* covariance, on each axis given a kernel extent the kernel size in bins is
\* round(extent / bin width), whether or not the other axis is given one.
C13_GivenExtentHonoured ==
    kern # <<>> /\ dx.num > 0 /\ dy.num > 0 /\ Invertible(cov) =>
        /\ ~IsNone(opts.kern_nx) => kern.nx = ExtentSize(Val(opts.kern_nx), dx)
        /\ ~IsNone(opts.kern_ny) => kern.ny = ExtentSize(Val(opts.kern_ny), dy)

\* ------------------------------------------------------------------ C14
\* a kernel of numbers with one entry or more has been built
KernelBuilt ==
    kernel # <<>> /\ ~kernel.nan /\ kernel.rows >= 1 /\ kernel.cols >= 1

\* the offsets of a kernel axis of a given size are symmetric about 0
SymmetricOffsets(size) ==
    \A k \in 0..size - 1 :
        \E j \in 0..size - 1 : Offset2(j, size) = -Offset2(k, size)

\* K(u, v) = K(-u, -v): the kernel equals itself turned by half a turn
PointSymmetric(k) ==
    \A c \in DOMAIN k.at :
        k.at[c] = k.at[<<k.rows - 1 - c[1], k.cols - 1 - c[2]>>]

\* the histogram of shape (nx, ny) with 1 in cell h and 0 elsewhere
UnitHistogram(h) ==
    [c \in (0..nx - 1) \X (0..ny - 1) |-> IF c = h THEN 1 ELSE 0]

\* the convolution of the histogram of the one cell h with the kernel is
\* largest at h
PeakStays(h) ==
    LET g == Convolve2dSame(UnitHistogram(h), nx, ny, kernel)
    IN  \A c \in DOMAIN g.at : g.at[c] <= g.at[h]

\* the cells of the histogram that are not on its border
Interior == (1..nx - 2) \X (1..ny - 2)

\* C14: the offsets of each axis of the kernel are symmetric about 0, the
\* kernel satisfies K(u, v) = K(-u, -v), and a histogram of one non-zero
\* cell off the border, convolved with it, is largest at that cell.
C14_KernelCentred ==
    KernelBuilt =>
        /\ SymmetricOffsets(kernel.cols)
        /\ SymmetricOffsets(kernel.rows)
        /\ PointSymmetric(kernel)
        /\ \A h \in Interior : PeakStays(h)

\* ------------------------------------------------------------------ C15
\* the extents are bound and have zero range on an axis
DegenerateExtent == ext # <<>> /\ ZeroRange

\* the samples are too few or all the same, or their covariance is singular
SingularInput == Degenerate \/ (cov # <<>> /\ CovFinite(cov) /\ Det(cov) = 0)

FailedAs(kind) == Failed /\ ErrorKind(Val(err)) = kind

\* C15: a call that violates two preconditions or more fails with the error
\* kind of the first one in the order size mismatch, degenerate extent,
\* degenerate kernel, singular covariance; a failed call returns no grid.
C15_FirstViolationReported ==
    pc = "done" =>
        /\ Failed => ret = None
        /\ SizesDiffer /\ (Len(x) < 2 \/ Len(y) < 2)
           => FailedAs("ShapeMismatchError")
        /\ ~SizesDiffer /\ DegenerateExtent
              /\ (NonPositiveKernel \/ SingularInput)
           => FailedAs("DegenerateExtentError")
        /\ ~SizesDiffer /\ ~DegenerateExtent
              /\ NonPositiveKernel /\ SingularInput
           => FailedAs("DegenerateKernelError")

\* ------------------------------------------------------------------ C16
\* the binning has run under explicit extents
BinnedInExtents == xyi # <<>> /\ ~IsNone(opts.extents)

\* the sample k lies outside the extents
Uncontained(k) ==
    \/ x[k] < ext.xmin \/ x[k] > ext.xmax
    \/ y[k] < ext.ymin \/ y[k] > ext.ymax

\* v lies a bin width w or more above hi
Beyond(v, hi, w) == v > hi /\ (v - hi) * w.den >= w.num

\* the sample k lies below the extents, or a bin width or more above them
OutOfGrid(k) ==
    \/ x[k] < ext.xmin \/ Beyond(x[k], ext.xmax, dx)
    \/ y[k] < ext.ymin \/ Beyond(y[k], ext.ymax, dy)

Rejected == pc = "done" /\ err = Some("ValueError: index out of range")

\* C16 as claimed: under explicit extents that leave a sample outside them,
\* the binning fails with the index error and no grid is made or returned.
C16_UncontainedRejected ==
    BinnedInExtents /\ (\E k \in 1..n : Uncontained(k)) =>
        Rejected /\ grid = <<>> /\ ret = None

\* C16, amended: under explicit extents that leave a sample below the lower
\* bound, or a bin width or more above the upper bound, of an axis, the
\* binning fails with the index error and no grid is made or returned; a
\* sample less than a bin width above the upper bound has the index of the
\* last bin.
C16_OutOfGridRejected ==
    BinnedInExtents =>
        /\ (\E k \in 1..n : OutOfGrid(k)) =>
              Rejected /\ grid = <<>> /\ ret = None
        /\ \A k \in 1..n :
              /\ x[k] > ext.xmax /\ ~Beyond(x[k], ext.xmax, dx)
                 => xyi[1][k] = Fin(nx - 1)
              /\ y[k] > ext.ymax /\ ~Beyond(y[k], ext.ymax, dy)
                 => xyi[2][k] = Fin(ny - 1)

\* the binning has rejected a call whose only samples outside the extents
\* lie a bin width or more above ymax
C16_Witness ==
    /\ BinnedInExtents
    /\ Rejected
    /\ \E k \in 1..n : Beyond(y[k], ext.ymax, dy)
    /\ \A k \in 1..n : x[k] >= ext.xmin /\ x[k] <= ext.xmax /\ y[k] >= ext.ymin
    /\ dx.num > 0 /\ dy.num > 0
====
